---- MODULE Spec2Model ----
(***************************************************************************)
(* Model of PDF_agent.py: a document-grounded chat assistant.              *)
(*                                                                         *)
(* Three specifications share the variables below:                         *)
(*   Spec      the script's __main__ block: reset of the vector store,     *)
(*             ingestion, index build, metadata extraction, chat loop;     *)
(*   SpecChat  chat_with_memory called on several thread ids against a     *)
(*             compiled workflow with a MemorySaver checkpointer;          *)
(*   SpecMMR   the max_marginal_relevance_search call of                   *)
(*             create_augmented_response, and the MMR selection of         *)
(*             spec section 4.3 for arbitrary k, fetch_k and lambda.       *)
(***************************************************************************)
EXTENDS Integers, Sequences, FiniteSets, TLC

VARIABLES
    pc,            \* position of the __main__ block / of the caller
    disk,          \* records persisted at persist_directory, or Absent
    splits,        \* passages produced by process_documents in this run
    vector_store,  \* records of the Chroma collection the program queries
    metadata,      \* value returned by extract_metadata (NoValue before)
    question,      \* last line read by input()
    store,         \* MemorySaver: thread id -> message history
    sent,          \* message list of the last model.invoke of a chat turn
    search,        \* arguments and result of the last MMR search
    response,      \* the model's reply inside extract_metadata
    raised,        \* the uncaught exception, "none" while running
    out,           \* what reset_vector_store printed
    log            \* one entry per chat_with_memory call, in call order

vars == <<pc, disk, splits, vector_store, metadata, question, store, sent,
          search, response, raised, out, log>>

(***************************************************************************)
(* Bounds                                                                  *)
(***************************************************************************)
MaxCoord == 1      \* embeddings are the points 0..MaxCoord
MaxIndex == 6      \* passages in the index of SpecMMR
MaxSplits == 2     \* passages produced by one ingestion in Spec
MaxStale == 1      \* records left on disk by an earlier run
MaxCalls == 3      \* chat_with_memory calls in one behaviour of SpecChat
MaxTurns == 2      \* questions asked in one run of the chat loop in Spec
MaxK == 3          \* k and fetch_k of a general MMR search

Points == 0..MaxCoord

Min(a, b) == IF a <= b THEN a ELSE b

Abs(a) == IF a < 0 THEN -a ELSE a

Range(s) == {s[i] : i \in 1..Len(s)}

SeqsUpTo(S, n) == UNION {[1..m -> S] : m \in 0..n}

Take(s, n) == SubSeq(s, 1, Min(n, Len(s)))

(***************************************************************************)
(* Vector index records.  A record carries its embedding and the run that  *)
(* added it, so that records of an earlier run can be told from the        *)
(* passages of the current run.                                            *)
(***************************************************************************)
Absent == [exists |-> FALSE, records |-> <<>>]

Directory(records) == [exists |-> TRUE, records |-> records]

Passage(run, e) == [run |-> run, emb |-> e]

Text(p) == <<"p", ToString(p.emb), p.run>>

(***************************************************************************)
(* Retrieval (spec 4.3).  Similarities are integers; lambda is in tenths.  *)
(***************************************************************************)
Similarity(a, b) == MaxCoord - Abs(a - b)

ArgMaxLater(cands, score) ==
    CHOOSE i \in cands : \A j \in cands :
        score[i] > score[j] \/ (score[i] = score[j] /\ i >= j)

\* position of the best candidate: highest score, earliest position on ties
ArgMax(cands, score) ==
    CHOOSE i \in cands : \A j \in cands :
        score[i] > score[j] \/ (score[i] = score[j] /\ i <= j)

RECURSIVE NearestFirst(_, _, _)
\* the records of index ordered by decreasing similarity to the query
NearestFirst(index, qe, done) ==
    LET rest == (1..Len(index)) \ Range(done)
        rel == [i \in rest |-> Similarity(index[i].emb, qe)]
    IN  IF rest = {} THEN [n \in 1..Len(done) |-> index[done[n]]]
        ELSE NearestFirst(index, qe, Append(done, ArgMax(rest, rel)))

\* step 2: the candidate pool, the fetch_k records nearest to the query
FetchPool(index, qe, fetch_k) == Take(NearestFirst(index, qe, <<>>), fetch_k)

MaxOf(S) == CHOOSE m \in S : \A x \in S : x <= m

RECURSIVE MMRSelect(_, _, _, _, _)
\* step 3: greedy selection of pool positions
MMRSelect(pool, qe, k, lam, selected) ==
    LET rest == (1..Len(pool)) \ Range(selected)
        redundancy(i) ==
            IF selected = <<>> THEN 0
            ELSE MaxOf({Similarity(pool[i].emb, pool[selected[n]].emb) :
                        n \in 1..Len(selected)})
        score == [i \in rest |-> lam * Similarity(pool[i].emb, qe)
                                   - (10 - lam) * redundancy(i)]
    IN  IF Len(selected) >= Min(k, Len(pool)) \/ rest = {} THEN selected
        ELSE MMRSelect(pool, qe, k, lam, Append(selected, ArgMax(rest, score)))

mmr_k == 4
mmr_fetch_k == 5
lambda_mult == 8

SwappedArgs == [k |-> mmr_fetch_k + 1, fetch_k |-> mmr_k, lambda_mult |-> lambda_mult]

\* the keyword arguments create_augmented_response passes to the search
SearchArgs == [k |-> mmr_k, fetch_k |-> mmr_fetch_k, lambda_mult |-> lambda_mult]

\* the record left in the variable search by one MMR search
SearchResult(index, qe, args, by) ==
    LET pool == FetchPool(index, qe, args.fetch_k)
        picks == MMRSelect(pool, qe, args.k, args.lambda_mult, <<>>)
    IN  [by |-> by, query |-> qe, args |-> args, index |-> index, pool |-> pool,
         picks |-> picks,
         results |-> [n \in 1..Len(picks) |-> pool[picks[n]]]]

NoSearch == [by |-> "none"]

(***************************************************************************)
(* SpecMMR: one search against an arbitrary index.                         *)
(***************************************************************************)
Lambdas == {0, 10}

Indexes(n) == SeqsUpTo({Passage("run", e) : e \in Points}, n)

NoValue == [t |-> "unset"]

NoLine == <<"<none>">>

NoReply == <<"<none>">>

InitMMR ==
    /\ pc = "serving"
    /\ vector_store \in Indexes(MaxIndex)
    /\ disk = Directory(vector_store)
    /\ splits = vector_store
    /\ metadata = NoValue
    /\ question = NoLine
    /\ response = NoReply
    /\ store = <<>>
    /\ sent = <<>>
    /\ search = NoSearch
    /\ raised = "none"
    /\ out = "has been reset"
    /\ log = <<>>

\* vector_store.max_marginal_relevance_search as create_augmented_response calls it
CodeSearch ==
    /\ search = NoSearch
    /\ \E qe \in Points :
           search' = SearchResult(vector_store, qe, SearchArgs, "chat")
    /\ UNCHANGED <<pc, disk, splits, vector_store, metadata, question, store,
                   sent, response, raised, out, log>>

\* the retrieval of spec 4.3 with arbitrary parameters
LibSearch ==
    /\ search = NoSearch
    /\ \E qe \in Points, k \in 0..MaxK, fetch_k \in 0..MaxK, lam \in Lambdas :
           search' = SearchResult(vector_store, qe,
                                  [k |-> k, fetch_k |-> fetch_k, lambda_mult |-> lam],
                                  "lib")
    /\ UNCHANGED <<pc, disk, splits, vector_store, metadata, question, store,
                   sent, response, raised, out, log>>

NextMMR == CodeSearch \/ LibSearch

SpecMMR == InitMMR /\ [][NextMMR]_vars

(***************************************************************************)
(* Messages and the chat turn.                                             *)
(***************************************************************************)
HumanMessage(c) == [role |-> "user", content |-> c]

AIMessage(c) == [role |-> "assistant", content |-> c]

SystemMessage(c) == [role |-> "system", content |-> c]

RECURSIVE JoinSpace(_)
\* " ".join(texts)
JoinSpace(texts) ==
    IF texts = <<>> THEN <<>>
    ELSE IF Len(texts) = 1 THEN texts[1]
    ELSE texts[1] \o <<" ">> \o JoinSpace(Tail(texts))

\* the system instruction built from the retrieved passages
ContextPrompt(results) ==
    <<"You are a helpful assistant. ", "Context: ">>
        \o JoinSpace([n \in 1..Len(results) |-> Text(results[n])])

\* the embedding service: deterministic for identical text
Embed(text) == Len(text) % (MaxCoord + 1)

\* history of a thread in the checkpointer; empty when the id was never used
History(t) == IF t \in DOMAIN store THEN store[t] ELSE <<>>

MessagesNoHistory(context, state) == <<SystemMessage(context)>> \o <<state[Len(state)]>>

\* the message list create_augmented_response hands to model.invoke
Messages(context, state) == <<SystemMessage(context)>> \o state

CheckpointWithPrompt(t, state, kind, answer) ==
    IF kind = "ok" THEN Append(<<SystemMessage(<<>>)>> \o state, AIMessage(answer))
    ELSE state

\* the history the checkpointer holds for thread t after app.invoke: the input
\* checkpoint (history plus the new user message) is saved before the chat
\* node runs, the node's reply is appended when the node returns
Checkpoint(t, state, kind, answer) ==
    IF kind = "ok" THEN Append(state, AIMessage(answer)) ELSE state

SavedAllThreads(t, h) == [u \in {"s1", "s2", "user_session_1"} |-> h]

\* the checkpointer after a turn on thread t left history h
Saved(t, h) == (t :> h) @@ store

Answers == {<<"y","e","s">>, <<"n","o">>}

Outcomes == {"ok", "retrieval_error", "model_error"}

\* chat_with_memory(question, app, thread_id), with create_augmented_response
\* as the graph's only node
chat_with_memory(q, t) ==
    \E kind \in Outcomes, answer \in Answers :
        LET state == Append(History(t), HumanMessage(q))
            latest_msg == state[Len(state)].content
            found == SearchResult(vector_store, Embed(latest_msg), SearchArgs, "chat")
        IN  /\ kind # "ok" => answer = <<"n","o">>
            /\ search' = IF kind = "retrieval_error" THEN search ELSE found
            /\ sent' = IF kind = "retrieval_error" THEN sent
                       ELSE Messages(ContextPrompt(found.results), state)
            /\ store' = Saved(t, Checkpoint(t, state, kind, answer))
            /\ log' = Append(log, [thread |-> t, question |-> q, kind |-> kind,
                                   answer |-> answer])
            /\ raised' = IF kind = "ok" THEN "none" ELSE kind

(***************************************************************************)
(* SpecChat: a caller invoking chat_with_memory on several thread ids.     *)
(***************************************************************************)
ThreadIds == {"s1", "s2"}

Questions == {<<"H","e","l","l","o">>, <<"W","h","a","t","?">>}

InitChat ==
    /\ pc = "serving"
    /\ vector_store \in {[n \in 1..m |-> Passage("run", n % (MaxCoord + 1))] :
                            m \in {1, MaxIndex}}
    /\ disk = Directory(vector_store)
    /\ splits = vector_store
    /\ metadata = NoValue
    /\ question = NoLine
    /\ response = NoReply
    /\ store = <<>>
    /\ sent = <<>>
    /\ search = NoSearch
    /\ raised = "none"
    /\ out = "has been reset"
    /\ log = <<>>

Call ==
    /\ Len(log) < MaxCalls
    /\ \E q \in Questions, t \in ThreadIds : chat_with_memory(q, t)
    /\ UNCHANGED <<pc, disk, splits, vector_store, metadata, question, response, out>>

NextChat == Call

SpecChat == InitChat /\ [][NextChat]_vars

(***************************************************************************)
(* Metadata extraction.  A reply of the model is a sequence of tokens:     *)
(* "WS" is a run of whitespace, "FENCE" a code fence, "json" a language tag, *)
(* every other token is a text named in Bodies.                            *)
(***************************************************************************)
JNull == [t |-> "null"]

JStr(v) == [t |-> "str", v |-> v]

JNum(v) == [t |-> "num", v |-> v]

JMissing == [t |-> "missing"]

JList == [t |-> "list"]

JDict(d, a) == [t |-> "dict", date |-> d, author |-> a]

JSONDecodeError == [t |-> "JSONDecodeError"]

\* the texts a reply may carry and what json.loads makes of each
Bodies == {"obj_both", "obj_nulls", "obj_date_only", "obj_empty", "obj_number",
           "array", "number", "null", "prose"}

json_loads_body(b) ==
    CASE b = "obj_both"      -> JDict(JStr("2020-01-01"), JStr("Ann"))
      [] b = "obj_nulls"     -> JDict(JNull, JNull)
      [] b = "obj_date_only" -> JDict(JStr("2020-01-01"), JMissing)
      [] b = "obj_empty"     -> JDict(JMissing, JMissing)
      [] b = "obj_number"    -> JDict(JNum("2020"), JStr("Ann"))
      [] b = "array"         -> JList
      [] b = "number"        -> JNum("42")
      [] b = "null"          -> JNull
      [] OTHER               -> JSONDecodeError

\* json.loads of a stripped token sequence: one JSON text and nothing else
json_loads(toks) ==
    IF Len(toks) = 1 /\ toks[1] \in Bodies THEN json_loads_body(toks[1])
    ELSE JSONDecodeError

RECURSIVE StripLeft(_)
StripLeft(toks) ==
    IF toks # <<>> /\ Head(toks) = "WS" THEN StripLeft(Tail(toks)) ELSE toks

RECURSIVE StripRight(_)
StripRight(toks) ==
    IF toks # <<>> /\ toks[Len(toks)] = "WS"
    THEN StripRight(SubSeq(toks, 1, Len(toks) - 1)) ELSE toks

\* str.strip()
Strip(toks) == StripRight(StripLeft(toks))

\* lines 43-45: strip, then drop a leading and a trailing fence when both are there
Unfence(content) ==
    LET json_str == Strip(content)
    IN  IF json_str # <<>> /\ Head(json_str) = "FENCE"
           /\ json_str[Len(json_str)] = "FENCE"
        THEN Strip(SubSeq(json_str, 2, Len(json_str) - 1))
        ELSE json_str

NullMetadata == JDict(JNull, JNull)

extract_metadata_unguarded(content) == json_loads(Unfence(content))

\* lines 40-50: what extract_metadata returns for a reply of the model
extract_metadata(content) ==
    LET parsed == json_loads(Unfence(content))
    IN  IF parsed = JSONDecodeError THEN NullMetadata ELSE parsed

\* metadata[key] of lines 181-182: the exception it raises, or "none"
Subscript(m, key) ==
    IF m.t = "dict"
    THEN IF (IF key = "date" THEN m.date ELSE m.author) = JMissing
         THEN "KeyError" ELSE "none"
    ELSE "TypeError"

Replies ==
    UNION {{ <<b>>, <<"WS", b, "WS">>, <<"FENCE", b, "FENCE">>,
             <<"WS", "FENCE", "WS", b, "WS", "FENCE", "WS">>,
             <<"FENCE", "json", "WS", b, "WS", "FENCE">>, <<"FENCE", b>>,
             <<b, "WS", b>> } : b \in Bodies}
    \cup {<<>>, <<"FENCE">>, <<"FENCE", "FENCE">>}

(***************************************************************************)
(* Spec: the __main__ block.                                               *)
(***************************************************************************)
thread_id == "user_session_1"

exit == <<"e", "x", "i", "t">>

LowerChar(c) ==
    CASE c = "E" -> "e" [] c = "X" -> "x" [] c = "I" -> "i" [] c = "T" -> "t"
      [] c = "H" -> "h" [] OTHER -> c

\* str.lower()
Lower(line) == [n \in 1..Len(line) |-> LowerChar(line[n])]

IsExitExact(line) == line = exit

\* line 192: question.lower() compared with the token exit
IsExit(line) == Lower(line) = exit

Lines == {exit, <<"E","X","I","T">>, <<"E","x","i","T">>, <<"e","x","i","t"," ">>,
          <<"e","x","i">>, <<"H","i">>, <<>>}

DiskStates ==
    {Absent} \cup {Directory(recs) :
                      recs \in SeqsUpTo({Passage("stale", e) : e \in Points}, MaxStale)}

Init ==
    /\ pc = "reset"
    /\ disk \in DiskStates
    /\ splits = <<>>
    /\ vector_store = <<>>
    /\ metadata = NoValue
    /\ question = NoLine
    /\ response = NoReply
    /\ store = <<>>
    /\ sent = <<>>
    /\ search = NoSearch
    /\ raised = "none"
    /\ out = "none"
    /\ log = <<>>

KeepDirectory(d) == d

\* what reset_vector_store leaves at persist_directory
Wiped(d) == IF d.exists THEN Absent ELSE d

reset_vector_store ==
    /\ pc = "reset"
    /\ disk' = Wiped(disk)
    /\ out' = IF disk.exists THEN "has been reset" ELSE "No existing vector store found"
    /\ pc' = "process"
    /\ UNCHANGED <<splits, vector_store, metadata, question, response, store,
                   sent, search, raised, log>>

process_documents ==
    /\ pc = "process"
    /\ splits' \in Indexes(MaxSplits) \ {<<>>}
    /\ pc' = "build"
    /\ UNCHANGED <<disk, vector_store, metadata, question, response, store,
                   sent, search, raised, log, out>>

\* Chroma.from_documents: the collection at persist_directory, created when
\* absent, with the passages of this run added to it
from_documents ==
    /\ pc = "build"
    /\ vector_store' = disk.records \o splits
    /\ disk' = Directory(vector_store')
    /\ pc' = "metadata"
    /\ UNCHANGED <<splits, metadata, question, response, store, sent, search,
                   raised, log, out>>

\* lines 178-179: metadata = extract_metadata(docs[0]); the model call of
\* line 38 is outside the try block
ExtractMetadata ==
    /\ pc = "metadata"
    /\ \/ /\ \E r \in Replies :
                /\ response' = r
                /\ metadata' = extract_metadata(r)
          /\ pc' = "print"
          /\ UNCHANGED raised
       \/ /\ raised' = "model_error"
          /\ pc' = "raised"
          /\ UNCHANGED <<metadata, response>>
    /\ UNCHANGED <<disk, splits, vector_store, question, store, sent, search, log, out>>

\* lines 180-182
PrintMetadata ==
    /\ pc = "print"
    /\ LET e1 == Subscript(metadata, "date")
           e2 == Subscript(metadata, "author")
       IN  /\ raised' = IF e1 # "none" THEN e1 ELSE e2
           /\ pc' = IF raised' = "none" THEN "setup" ELSE "raised"
    /\ response' = NoReply
    /\ UNCHANGED <<disk, splits, vector_store, metadata, question, store, sent,
                   search, log, out>>

\* lines 185-187: a fresh MemorySaver
setup_chat_workflow ==
    /\ pc = "setup"
    /\ store' = <<>>
    /\ pc' = "input"
    /\ UNCHANGED <<disk, splits, vector_store, metadata, question, response, sent,
                   search, raised, log, out>>

\* lines 191-193
ReadLine ==
    /\ pc = "input"
    /\ \E line \in Lines :
          /\ IsExit(line) \/ Len(log) < MaxTurns
          /\ question' = line
          /\ pc' = IF IsExit(line) THEN "done" ELSE "chat"
    /\ UNCHANGED <<disk, splits, vector_store, metadata, response, store, sent,
                   search, raised, log, out>>

\* line 195; an exception of the turn is not caught and ends the process
Chat ==
    /\ pc = "chat"
    /\ chat_with_memory(question, thread_id)
    /\ pc' = IF raised' = "none" THEN "input" ELSE "raised"
    /\ UNCHANGED <<disk, splits, vector_store, metadata, question, response, out>>

Next ==
    \/ reset_vector_store
    \/ process_documents
    \/ from_documents
    \/ ExtractMetadata
    \/ PrintMetadata
    \/ setup_chat_workflow
    \/ ReadLine
    \/ Chat

Spec == Init /\ [][Next]_vars

(***************************************************************************)
(* Properties                                                              *)
(***************************************************************************)
Last(s) == s[Len(s)]

\* the log entries of the turns on thread t, in call order
TurnsOn(t) == SelectSeq(log, LAMBDA e : e.thread = t)

AllOk(turns) == \A i \in 1..Len(turns) : turns[i].kind = "ok"

\* history of thread t after the step
HistoryAfter(t) == IF t \in DOMAIN store' THEN store'[t] ELSE <<>>

RECURSIVE TurnMessages(_)
\* the user and assistant messages of a sequence of turns
TurnMessages(turns) ==
    IF turns = <<>> THEN <<>>
    ELSE <<HumanMessage(turns[1].question)>>
         \o (IF turns[1].kind = "ok" THEN <<AIMessage(turns[1].answer)>> ELSE <<>>)
         \o TurnMessages(Tail(turns))

\* C1: after N turns on a session, all successful, its stored history holds
\* exactly 2N messages, the user message and the reply of each turn in call
\* order, and no system message.
C1_HistoryHoldsTwoPerTurn ==
    \A t \in ThreadIds :
        LET turns == TurnsOn(t)
            h == History(t)
        IN  AllOk(turns) =>
              /\ Len(h) = 2 * Len(turns)
              /\ \A i \in 1..Len(turns) :
                    /\ h[2 * i - 1] = HumanMessage(turns[i].question)
                    /\ h[2 * i] = AIMessage(turns[i].answer)
              /\ \A j \in 1..Len(h) : h[j].role # "system"

C1_Witness ==
    \E t \in ThreadIds :
        /\ Len(TurnsOn(t)) >= 2
        /\ AllOk(TurnsOn(t))
        /\ Len(History(t)) = 2 * Len(TurnsOn(t))

\* C2: whenever a turn reaches the model call, the model receives one system
\* message followed by the session history as stored before the turn (the
\* messages of all earlier turns of that session) and then the user message
\* of the current turn.
C2_ModelSeesFullHistory ==
    [][(log' # log /\ Last(log').kind # "retrieval_error") =>
         LET e == Last(log')
         IN  /\ sent'[1].role = "system"
             /\ \A i \in 2..Len(sent') : sent'[i].role # "system"
             /\ Tail(sent') = Append(History(e.thread), HumanMessage(e.question))
             /\ Tail(sent') = Append(TurnMessages(TurnsOn(e.thread)),
                                     HumanMessage(e.question))]_vars

C2_Witness ==
    /\ Len(log) = 2
    /\ log[1].thread = log[2].thread
    /\ AllOk(log)
    /\ sent[1].role = "system"
    /\ Tail(sent) = <<HumanMessage(log[1].question), AIMessage(log[1].answer),
                      HumanMessage(log[2].question)>>

\* C3: a turn whose retrieval or model call fails leaves the history of its
\* session as it was before the turn.
C3_FailedTurnCommitsNothing ==
    [][(log' # log /\ Last(log').kind # "ok") =>
         HistoryAfter(Last(log').thread) = History(Last(log').thread)]_vars

\* the token sequence without the whitespace and fence markers around it
RECURSIVE WithoutFences(_)
WithoutFences(toks) ==
    IF toks # <<>> /\ Head(toks) \in {"WS", "FENCE"} THEN WithoutFences(Tail(toks))
    ELSE IF toks # <<>> /\ Last(toks) \in {"WS", "FENCE"}
         THEN WithoutFences(SubSeq(toks, 1, Len(toks) - 1))
         ELSE toks

IsStringOrNull(v) == v.t \in {"str", "null"}

HasBothFields(m) ==
    IF m.t = "dict" THEN IsStringOrNull(m.date) /\ IsStringOrNull(m.author)
    ELSE FALSE

\* C5: whatever the model replies, extract_metadata returns an object with a
\* date and an author field, each a string or null, and reading the two
\* fields at startup raises nothing.
C5_MetadataHasBothFields ==
    /\ pc = "print" => HasBothFields(metadata)
    /\ raised \notin {"KeyError", "TypeError"}

ExitAnyCase(line) ==
    /\ Len(line) = 4
    /\ line[1] \in {"e", "E"}
    /\ line[2] \in {"x", "X"}
    /\ line[3] \in {"i", "I"}
    /\ line[4] \in {"t", "T"}

\* C6: a line spelling exit in any letter case ends the loop with no turn
\* started, and none is started afterwards; any other line starts one turn
\* on the fixed session with that line as the user message, and when the
\* turn returns the loop reads the next line.
C6_ExitEndsLoopElseOneTurn ==
    [][/\ pc = "input" =>
            /\ log' = log /\ store' = store
            /\ pc' = IF ExitAnyCase(question') THEN "done" ELSE "chat"
       /\ pc = "chat" =>
            /\ log' = Append(log, Last(log'))
            /\ Last(log').thread = thread_id
            /\ Last(log').question = question
            /\ HistoryAfter(thread_id)[Len(History(thread_id)) + 1]
                   = HumanMessage(question)
            /\ raised' = "none" => pc' = "input"
       /\ pc = "done" => (pc' = "done" /\ log' = log /\ store' = store)]_vars

C6_Witness ==
    /\ pc = "done"
    /\ question = <<"E", "X", "I", "T">>
    /\ Len(log) >= 1

\* number of records of s at least as similar to the query as level
AtLeast(s, qe, level) ==
    Cardinality({i \in 1..Len(s) : Similarity(s[i].emb, qe) >= level})

C8_LambdaOneIsRelevanceRanking ==
    (search.by # "none" /\ search.args.lambda_mult = 10) =>
        LET picks == search.picks
            rel(i) == Similarity(search.pool[i].emb, search.query)
            before(i, j) == rel(i) > rel(j) \/ (rel(i) = rel(j) /\ i < j)
        IN  /\ Len(picks) = Min(search.args.k, Len(search.pool))
            /\ \A n \in 1..(Len(picks) - 1) : before(picks[n], picks[n + 1])
            /\ \A n \in 1..Len(picks) :
                  \A j \in (1..Len(search.pool)) \ Range(picks) : before(picks[n], j)

C8_Witness ==
    /\ search.by = "lib"
    /\ search.args.lambda_mult = 10
    /\ Len(search.picks) = 2
    /\ Len(search.pool) = 3
    /\ Len(search.index) > 3
    /\ search.pool[1].emb = search.pool[2].emb
    /\ search.pool[3].emb # search.pool[2].emb

\* C9: reset_vector_store leaves no storage location and raises nothing,
\* whether or not one existed; no index exists before it has run; while the
\* chat loop serves, the index and the storage location hold exactly the
\* passages of this run.
C9_IndexRebuiltFromScratch ==
    /\ pc = "process" => (~disk.exists /\ raised = "none")
    /\ pc \in {"reset", "process", "build"} => vector_store = <<>>
    /\ pc \in {"input", "chat", "done"} =>
          (vector_store = splits /\ disk = Directory(splits))

C9_Witness ==
    /\ pc = "chat"
    /\ out = "has been reset"
    /\ vector_store = splits
    /\ Len(splits) = MaxSplits

\* C10: a turn on session s leaves the history of every other session as it
\* was, hands the model the history of s only, and starts from an empty
\* history when s was never used.
C10_SessionsIndependent ==
    [][log' # log =>
         LET e == Last(log')
         IN  /\ \A u \in ThreadIds \ {e.thread} :
                   /\ HistoryAfter(u) = History(u)
                   /\ u \in DOMAIN store' <=> u \in DOMAIN store
             /\ e.kind # "retrieval_error" =>
                   SubSeq(sent', 2, Len(sent') - 1) = History(e.thread)
             /\ e.thread \notin DOMAIN store =>
                   HistoryAfter(e.thread)[1] = HumanMessage(e.question)]_vars

C10_Witness ==
    /\ Len(log) = 3
    /\ AllOk(log)
    /\ Len(History("s1")) = 4
    /\ Len(History("s2")) = 2
    /\ History("s2")[1] = HumanMessage(log[2].question)

====
